---- MODULE Spec2Model ----
(***************************************************************************)
(* Resume pipeline of basudabC/groq_parser:                                *)
(*   f_script_api_v2.py  MultiGroqClient (key pool, failover) and          *)
(*                       ResumeProcessor (batch loop, LLM call)            *)
(*   sscript.py          process_resumes (parsing of the saved outputs)    *)
(*   main_v2.py          insert_to_db / search_db (SQLite store)           *)
(*                                                                         *)
(* Three specifications share the variables of this module:                *)
(*   Spec       the client and the batch loop                              *)
(*   ParseSpec  the parsing of one response body                           *)
(*   StoreSpec  the store                                                  *)
(* Each one pins the variables of the others to their idle value.          *)
(***************************************************************************)
EXTENDS Integers, Sequences, FiniteSets, TLC

(***************************************************************************)
(* Bounds of the model.                                                    *)
(***************************************************************************)
\* longest list of keys handed to the constructor
MaxKeys == 2
\* number of distinct well-formed key strings
NumIds == 2
\* longest archive (entries of the zip file)
MaxFiles == 2
\* longest response body, in tokens
MaxBody == 5
\* most rows of the DataFrame handed to one insert_to_db call
MaxBatch == 2
\* last day datetime.now() gives (created_at is a day of 1..MaxDay)
MaxDay == 2
\* longest list of parsed records handed to normalize_json_data
MaxRecords == 2
\* most lines of page text of one document
MaxLines == 3

VARIABLES
    \* ---- MultiGroqClient ----
    api_keys,        \* self.api_keys: list of stripped keys (duplicates kept)
    used_keys,       \* self.used_keys
    invalid_keys,    \* self.invalid_keys
    current_client,  \* key of self.current_client, 0 for None
    \* ---- control ----
    pc,              \* position of the (single-threaded) program
    caller,          \* who called _initialize_client: "ctor" or "call"
    selected_key,    \* local selected_key of _initialize_client, 0 outside
    retries,         \* local retries of create_chat_completion
    \* ---- observations of one selection / one call ----
    probes,          \* probes made since _initialize_client was entered
    probe_outcome,   \* what the last probe got from the service
    rejected,        \* keys whose probe was rejected since it was entered
    reset_done,      \* whether used_keys was cleared since it was entered
    sel_result,      \* how the last selection ended
    attempts,        \* request attempts made in the current call
    tried,           \* keys attempted in the current call
    last_error,      \* error of the last failed attempt of the call
    cause,           \* __cause__ of the GroqAPIError raised at line 111
    call_result,     \* how the current call ended
    response,        \* body of the response of the call, <<>> if none
    \* ---- ResumeProcessor.process_all_resumes ----
    archive,         \* zip_ref.namelist(): TRUE for a name ending in .pdf
    file_idx,        \* index of the entry the loop is at
    llm_data,        \* llm_processed_data of the current document
    output_files,    \* per entry: the JSON written, "none" if not written
    doc_log,         \* per entry: what happened to it
    result_df,       \* main_v2: the table process_resumes built, each row
                     \* given as the entry whose file it came from
    \* ---- one response body through process_with_llm and process_resumes ----
    body,            \* response.choices[0].message.content, as tokens
    parse_pc,        \* "idle", "start", "saved", "tabled"
    saved,           \* content of the JSON file written for the document
    parsed,          \* what process_resumes took from the file: the text
                     \* it parsed, where it came from, the rows it gave
    \* ---- the store (resumes.db) and the calls on it ----
    resumes,         \* the rows of table resumes, in rowid order
    store_pc,        \* "idle", "inserting", "inserted", "searched"
    total_records,   \* local total_records of insert_to_db
    inserted_records,\* local inserted_records of insert_to_db
    current_time,    \* current_time of the last insert_to_db call
    df_done,         \* rows of df the loop of insert_to_db has gone through,
                     \* each with whether its INSERT succeeded (of a row
                     \* that was skipped only the two UNIQUE cells are kept)
    filters,         \* argument of the last search_db call
    found,           \* rows returned by the last search_db call
    \* ---- one list of parsed records through sscript's normalization ----
    data,            \* the records handed to normalize_json_data
    norm_pc,         \* "idle", "start", "normalized", "framed", "done"
    normalized_data, \* what normalize_json_data returned
    final_df,        \* the DataFrame: its columns and its rows
    \* ---- one document through extract_from_pdf ----
    extract_pc,      \* "idle", "reading", "done", "failed"
    lines_read,      \* lines of the pages the loop has gone through
    full_text,       \* local full_text, as the list of its lines
    sections,        \* local sections
    current_section, \* local current_section
    resume_data      \* what extract_from_pdf returned

pool_vars == <<api_keys, used_keys, invalid_keys, current_client>>
ctl_vars == <<pc, caller, selected_key, retries>>
obs_vars == <<probes, probe_outcome, rejected, reset_done, sel_result, attempts, tried,
              last_error, cause, call_result, response>>
batch_vars == <<archive, file_idx, llm_data, output_files, doc_log, result_df>>
client_vars == <<pool_vars, ctl_vars, obs_vars, batch_vars>>
parse_vars == <<body, parse_pc, saved, parsed>>
store_vars == <<resumes, store_pc, total_records, inserted_records,
                current_time, df_done, filters, found>>
norm_vars == <<data, norm_pc, normalized_data, final_df>>
extract_vars == <<extract_pc, lines_read, full_text, sections, current_section,
                  resume_data>>
vars == <<client_vars, parse_vars, store_vars, norm_vars, extract_vars>>

(***************************************************************************)
(* Raw key strings.  A raw key r stands for a string: r \div 2 names the   *)
(* text once stripped (0: text that does not match ^gsk_[A-Za-z0-9]{32,}$, *)
(* such as the empty string), r % 2 = 1 says it has surrounding blanks.    *)
(***************************************************************************)
KeyIds == 1..NumIds
RawKeys == 0..(2 * NumIds + 1)

strip(r) == r \div 2

\* MultiGroqClient._is_valid_key_format
is_valid_key_format(r) == strip(r) # 0

RECURSIVE filter_keys(_)
\* the list comprehension of MultiGroqClient.__init__
filter_keys(raw) ==
    IF raw = <<>> THEN <<>>
    ELSE IF is_valid_key_format(Head(raw))
         THEN <<strip(Head(raw))>> \o filter_keys(Tail(raw))
         ELSE filter_keys(Tail(raw))

SeqsUpTo(S, n) == UNION {[1..k -> S] : k \in 0..n}

Range(s) == {s[i] : i \in 1..Len(s)}

(***************************************************************************)
(* Errors of the completion service, by what their message contains.       *)
(***************************************************************************)
ServiceErrors == {"invalid_api_key", "401", "rate_limit"}

\* the test of lines 54 and 96
is_auth_error(e) == e \in {"invalid_api_key", "401"}

(***************************************************************************)
(* Response bodies.  A body is a sequence of tokens: "F" is a ``` fence,   *)
(* "[" "]" "{" "}" are themselves, "x" is any text that is not JSON.       *)
(* Blanks and commas are left out, and an object is written "{" "}".       *)
(***************************************************************************)
Tokens == {"F", "[", "]", "{", "}", "x"}

RECURSIVE value_end(_, _), elems_end(_, _)
\* index after the JSON value that starts at s[i], 0 if there is none
value_end(s, i) ==
    IF i > Len(s) THEN 0
    ELSE IF s[i] = "{"
         THEN IF i + 1 <= Len(s) /\ s[i + 1] = "}" THEN i + 2 ELSE 0
    ELSE IF s[i] = "[" THEN elems_end(s, i + 1)
    ELSE 0
elems_end(s, i) ==
    IF i > Len(s) THEN 0
    ELSE IF s[i] = "]" THEN i + 1
    ELSE LET j == value_end(s, i) IN IF j = 0 THEN 0 ELSE elems_end(s, j)

\* json.loads(s) does not raise JSONDecodeError
json_loads_ok(s) == value_end(s, 1) = Len(s) + 1

Positions(s, t) == {i \in 1..Len(s) : s[i] = t}
Min(S) == CHOOSE m \in S : \A n \in S : m <= n
Max(S) == CHOOSE m \in S : \A n \in S : m >= n

\* re.search(r'```(?:json)?\s*(.*?)\s*```', raw_output, re.DOTALL):
\* found iff there are two fences; group(1) lies between the first two
fence_found(s) == Cardinality(Positions(s, "F")) >= 2
fence_group(s) ==
    LET a == Min(Positions(s, "F"))
        b == Min(Positions(s, "F") \ {a})
    IN SubSeq(s, a + 1, b - 1)

\* re.search(r'(\[.*\]|\{.*\})', raw_output, re.DOTALL): the leftmost
\* opener that has its closer somewhere after it, up to the last such closer
Closer(t) == IF t = "[" THEN "]" ELSE "}"
bracket_starts(s) ==
    {i \in 1..Len(s) : /\ s[i] \in {"[", "{"}
                        /\ \E j \in (i + 1)..Len(s) : s[j] = Closer(s[i])}
bracket_found(s) == bracket_starts(s) # {}
bracket_group(s) ==
    LET a == Min(bracket_starts(s))
        b == Max({j \in (a + 1)..Len(s) : s[j] = Closer(s[a])})
    IN SubSeq(s, a, b)

\* process_with_llm, lines 286-290: what is returned for a response body
llm_output(s) ==
    IF json_loads_ok(s) THEN [kind |-> "json", text |-> s]
    ELSE [kind |-> "raw_llm_output", text |-> s]

\* process_with_llm, lines 292-293
llm_error == [kind |-> "error", text |-> <<>>]

NoData == [kind |-> "none", text |-> <<>>]

(***************************************************************************)
(* The bodies the completion service answers with in the batch model.      *)
(***************************************************************************)
SampleBodies == {<<"[", "{", "}", "]">>, <<"x">>}

(***************************************************************************)
(* MultiGroqClient                                                         *)
(***************************************************************************)
\* _initialize_client, lines 61-62
available_keys ==
    {k \in Range(api_keys) : k \notin used_keys /\ k \notin invalid_keys}

\* _initialize_client, line 65
all_keys_invalid == Cardinality(invalid_keys) = Len(api_keys)

\* variant: the set is overwritten instead of extended
mark_invalid_overwrite(k) == {k}

\* self.invalid_keys.add(key), lines 76 and 99
mark_invalid(k) == invalid_keys \cup {k}

\* variant: the reset forgets to leave the invalid keys out
reset_available_keys_unfiltered == Range(api_keys)

\* _initialize_client, line 69
reset_available_keys == {k \in Range(api_keys) : k \notin invalid_keys}

\* the locals of a finished selection and of a finished call are gone
SelectionIdle ==
    /\ selected_key' = 0
    /\ probes' = 0
    /\ probe_outcome' = "none"
    /\ rejected' = {}
    /\ reset_done' = FALSE
    /\ sel_result' = "none"

CallIdle ==
    /\ retries' = 0
    /\ attempts' = 0
    /\ tried' = {}
    /\ last_error' = "none"
    /\ cause' = "none"
    /\ call_result' = "none"
    /\ response' = <<>>

\* entering _initialize_client
EnterSelection(who) ==
    /\ caller' = who
    /\ selected_key' = 0
    /\ probes' = 0
    /\ probe_outcome' = "none"
    /\ rejected' = {}
    /\ reset_done' = FALSE
    /\ sel_result' = "none"

\* an exception leaves _initialize_client: out of the constructor it ends the
\* program (main: "Initialization Error"); out of create_chat_completion it
\* ends the call (line 109 re-raises a GroqAPIError, anything else passes
\* through the handler of line 108)
RaiseFromSelection(kind) ==
    /\ sel_result' = kind
    /\ selected_key' = 0
    /\ IF caller = "ctor"
       THEN /\ pc' = "init_error"
            /\ call_result' = call_result
       ELSE /\ pc' = "call_end"
            /\ call_result' = kind

\* ResumeProcessor.__init__ -> MultiGroqClient.__init__, lines 20-32
Construct ==
    /\ pc = "new"
    /\ \E arg_keys \in SeqsUpTo(RawKeys, MaxKeys) :
        IF arg_keys = <<>> \/ filter_keys(arg_keys) = <<>>
        THEN /\ pc' = "config_error"
             /\ UNCHANGED <<api_keys, used_keys, invalid_keys, current_client,
                            caller, selected_key, retries, obs_vars>>
        ELSE /\ api_keys' = filter_keys(arg_keys)
             /\ current_client' = 0
             /\ used_keys' = {}
             /\ invalid_keys' = {}
             /\ pc' = "select"
             /\ EnterSelection("ctor")
             /\ UNCHANGED <<retries, attempts, tried, last_error, cause,
                            call_result, response>>
    /\ UNCHANGED <<batch_vars, parse_vars, store_vars, norm_vars,
                   extract_vars>>

\* _initialize_client, lines 61-71: the candidates and random.choice
SelectKey ==
    /\ pc = "select"
    /\ IF available_keys # {}
       THEN /\ \E k \in available_keys : selected_key' = k
            /\ pc' = "probe"
            /\ UNCHANGED <<used_keys, reset_done, sel_result, call_result>>
       ELSE IF all_keys_invalid
       THEN /\ RaiseFromSelection("all_invalid")
            /\ UNCHANGED <<used_keys, reset_done>>
       ELSE /\ used_keys' = {}
            /\ reset_done' = TRUE
            /\ IF reset_available_keys # {}
               THEN /\ \E k \in reset_available_keys : selected_key' = k
                    /\ pc' = "probe"
                    /\ UNCHANGED <<sel_result, call_result>>
               ELSE \* random.choice([]) raises IndexError
                    RaiseFromSelection("index_error")
    /\ UNCHANGED <<api_keys, invalid_keys, current_client, caller,
                   retries, probes, probe_outcome, rejected, attempts, tried,
                   last_error, cause, response, batch_vars, parse_vars, store_vars, norm_vars,
                   extract_vars>>

\* variant: any failure of the probe counts against the key
validate_api_key_strict(outcome) == outcome = "ok"

\* _validate_api_key, lines 42-57: the probe's verdict on its outcome
validate_api_key(outcome) ==
    IF outcome = "ok" THEN TRUE
    ELSE IF is_auth_error(outcome) THEN FALSE
    ELSE TRUE

\* _initialize_client, lines 74-82: the probe and what follows it
ProbeKey ==
    /\ pc = "probe"
    /\ \E outcome \in {"ok"} \cup ServiceErrors :
        /\ probes' = probes + 1
        /\ probe_outcome' = outcome
        /\ IF ~validate_api_key(outcome)
           THEN /\ invalid_keys' = mark_invalid(selected_key)
                /\ rejected' = rejected \cup {selected_key}
                /\ selected_key' = 0
                /\ pc' = "select"
                /\ UNCHANGED <<current_client, used_keys, sel_result>>
           ELSE /\ current_client' = selected_key
                /\ used_keys' = used_keys \cup {selected_key}
                /\ sel_result' = "returned"
                /\ pc' = "sel_return"
                /\ UNCHANGED <<invalid_keys, rejected, selected_key>>
    /\ UNCHANGED <<api_keys, caller, retries, reset_done, attempts,
                   tried, last_error, cause, call_result, response,
                   batch_vars, parse_vars, store_vars, norm_vars,
                   extract_vars>>

\* _initialize_client returns selected_key (line 82) to its caller: the
\* constructor (then process_all_resumes starts) or the retry loop (line 107)
InitializeReturn ==
    /\ pc = "sel_return"
    /\ pc' = IF caller = "ctor" THEN "loop" ELSE "attempt"
    /\ SelectionIdle
    /\ UNCHANGED <<pool_vars, caller, retries, attempts, tried, last_error,
                   cause, call_result, response, batch_vars, parse_vars, store_vars, norm_vars,
                   extract_vars>>

\* create_chat_completion, lines 89-111: one turn of the retry loop
Attempt ==
    /\ pc = "attempt"
    /\ attempts' = attempts + 1
    /\ tried' = tried \cup {current_client}
    /\ \/ \E b \in SampleBodies :
            /\ response' = b
            /\ call_result' = "response"
            /\ pc' = "call_end"
            /\ UNCHANGED <<invalid_keys, retries, last_error, cause, caller,
                           selected_key, probes, probe_outcome, rejected,
                           reset_done, sel_result>>
       \/ \E e \in ServiceErrors :
            /\ retries' = retries + 1
            /\ last_error' = e
            /\ invalid_keys' = IF is_auth_error(e)
                               THEN mark_invalid(current_client)
                               ELSE invalid_keys
            /\ IF retries + 1 < Len(api_keys)
               THEN /\ pc' = "select"
                    /\ EnterSelection("call")
                    /\ UNCHANGED <<cause, call_result, response>>
               ELSE /\ pc' = "call_end"
                    /\ call_result' = "exhausted"
                    /\ cause' = e
                    /\ UNCHANGED <<response, caller, selected_key, probes,
                                   probe_outcome, rejected, reset_done,
                                   sel_result>>
    /\ UNCHANGED <<api_keys, used_keys, current_client, batch_vars,
                   parse_vars, store_vars, norm_vars,
                   extract_vars>>

(***************************************************************************)
(* ResumeProcessor.process_all_resumes                                     *)
(***************************************************************************)
NewLog == [extract |-> "pending", call |-> "none"]

\* variant: the error of one document leaves the loop
catch_target_abort == "aborted"

\* lines 152-156: the handler prints the error, then the for loop goes on
catch_target == "loop"

\* lines 292-293: process_with_llm catches GroqAPIError and returns a record
llm_catches(result) == result \in {"exhausted", "all_invalid"}

\* lines 132-133: the next name of the archive
LoopNext ==
    /\ pc = "loop"
    /\ IF file_idx > Len(archive)
       THEN /\ pc' = "done"
            /\ UNCHANGED <<file_idx, doc_log>>
       ELSE IF ~archive[file_idx]
       THEN /\ doc_log' = [doc_log EXCEPT ![file_idx].extract = "not_pdf"]
            /\ file_idx' = file_idx + 1
            /\ pc' = "loop"
       ELSE /\ pc' = "extract"
            /\ UNCHANGED <<file_idx, doc_log>>
    /\ UNCHANGED <<pool_vars, caller, selected_key, retries, obs_vars,
                   archive, llm_data, output_files, result_df, parse_vars, store_vars, norm_vars,
                   extract_vars>>

\* line 140, extract_from_pdf (lines 161-200): it returns the extraction or
\* raises Exception("Error extracting text: ..."), caught at line 152
ExtractFromPdf ==
    /\ pc = "extract"
    /\ \/ /\ doc_log' = [doc_log EXCEPT ![file_idx].extract = "ok"]
          /\ pc' = "llm"
          /\ UNCHANGED file_idx
       \/ /\ doc_log' = [doc_log EXCEPT ![file_idx].extract = "error"]
          /\ pc' = catch_target
          /\ file_idx' = file_idx + 1
    /\ UNCHANGED <<pool_vars, caller, selected_key, retries, obs_vars,
                   archive, llm_data, output_files, result_df, parse_vars, store_vars, norm_vars,
                   extract_vars>>

\* line 141, process_with_llm up to line 276, create_chat_completion 86-87
ProcessWithLlm ==
    /\ pc = "llm"
    /\ pc' = "attempt"
    /\ CallIdle
    /\ UNCHANGED <<pool_vars, caller, selected_key, probes, probe_outcome,
                   rejected, reset_done, sel_result, batch_vars, parse_vars, store_vars, norm_vars,
                   extract_vars>>

\* the call has ended: process_with_llm lines 286-293, or the exception goes
\* on to the handler of line 152
CallEnd ==
    /\ pc = "call_end"
    /\ doc_log' = [doc_log EXCEPT ![file_idx].call = call_result]
    /\ IF call_result = "response"
       THEN /\ llm_data' = llm_output(response)
            /\ pc' = "write"
            /\ UNCHANGED file_idx
       ELSE IF llm_catches(call_result)
       THEN /\ llm_data' = llm_error
            /\ pc' = "write"
            /\ UNCHANGED file_idx
       ELSE /\ llm_data' = NoData
            /\ pc' = catch_target
            /\ file_idx' = file_idx + 1
    /\ SelectionIdle
    /\ CallIdle
    /\ UNCHANGED <<pool_vars, caller, archive, output_files, result_df, parse_vars, store_vars, norm_vars,
                   extract_vars>>

\* lines 144-150: the JSON file of the document is written
SaveOutput ==
    /\ pc = "write"
    /\ output_files' = [output_files EXCEPT ![file_idx] = llm_data]
    /\ llm_data' = NoData
    /\ file_idx' = file_idx + 1
    /\ pc' = "loop"
    /\ UNCHANGED <<pool_vars, caller, selected_key, retries, obs_vars,
                   archive, doc_log, result_df, parse_vars, store_vars, norm_vars,
                   extract_vars>>

(***************************************************************************)
(* sscript.process_resumes, lines 56-98: one saved file                    *)
(***************************************************************************)
RECURSIVE elems_from(_, _)
\* the first tokens of the elements of the array s, from index i on
elems_from(s, i) ==
    IF i > Len(s) \/ s[i] = "]" THEN <<>>
    ELSE <<s[i]>> \o elems_from(s, value_end(s, i))

\* data if isinstance(data, list) else [data]: the records handed to
\* normalize_json_data, each named by its first token
as_list(s) == IF s[1] = "[" THEN elems_from(s, 2) ELSE <<s[1]>>

\* normalize_json_data(records) returns: record.items() raises
\* AttributeError on an element that is no object (caught at line 96)
normalize_ok(recs) == \A i \in 1..Len(recs) : recs[i] = "{"

NoRows == [src |-> "none", text |-> <<>>, rows |-> 0]

\* lines 83-86 and 91-94: the rows a parsed text adds to all_data
rows_of(src, s) ==
    IF normalize_ok(as_list(s))
    THEN [src |-> src, text |-> s, rows |-> Len(as_list(s))]
    ELSE NoRows

\* lines 66-76: json_str and the search that gave it
json_str_source(raw) ==
    IF fence_found(raw) THEN "fence"
    ELSE IF bracket_found(raw) THEN "bracket"
    ELSE "none"
json_str(raw) ==
    IF fence_found(raw) THEN fence_group(raw)
    ELSE IF bracket_found(raw) THEN bracket_group(raw)
    ELSE <<>>

\* lines 62-94: what one file content adds to all_data
process_file(content) ==
    IF content.kind = "raw_llm_output"
    THEN IF json_str(content.text) # <<>> /\ json_loads_ok(json_str(content.text))
         THEN rows_of(json_str_source(content.text), json_str(content.text))
         ELSE NoRows
    ELSE IF content.kind = "json" THEN rows_of("whole", content.text)
    ELSE \* {"error": ...}: a direct structure of one record
         [src |-> "whole", text |-> <<>>, rows |-> 1]

\* process_with_llm, lines 286-290, then the file is written (lines 144-148)
ParseResponse ==
    /\ parse_pc = "start"
    /\ saved' = llm_output(body)
    /\ parse_pc' = "saved"
    /\ UNCHANGED <<body, parsed, client_vars, store_vars, norm_vars,
                   extract_vars>>

\* process_resumes, lines 56-98, on that file
ReadSavedFile ==
    /\ parse_pc = "saved"
    /\ parsed' = process_file(saved)
    /\ parse_pc' = "tabled"
    /\ UNCHANGED <<body, saved, client_vars, store_vars, norm_vars,
                   extract_vars>>

RECURSIVE rows_from_files(_, _)
\* lines 52-103: the rows of all_data, file by file from entry i on, each
\* row given as the entry of its file (an entry without file gives none)
rows_from_files(files, i) ==
    IF i > Len(files) THEN <<>>
    ELSE (IF files[i] = NoData THEN <<>>
          ELSE [k \in 1..process_file(files[i]).rows |-> i])
            \o rows_from_files(files, i + 1)

\* main_v2.main, line 199: process_all_resumes has returned and
\* process_resumes reads the folder of the files it wrote
ProcessResumes ==
    /\ pc = "done"
    /\ result_df' = rows_from_files(output_files, 1)
    /\ pc' = "tabled"
    /\ UNCHANGED <<pool_vars, caller, selected_key, retries, obs_vars,
                   archive, file_idx, llm_data, output_files, doc_log,
                   parse_vars, store_vars, norm_vars, extract_vars>>

(***************************************************************************)
(* main_v2: the store.  A text is a sequence of characters.  A value of a  *)
(* DataFrame cell is a text, a list of texts or a missing value (None,     *)
(* NaN).  Of the twelve columns the model keeps the two UNIQUE ones and    *)
(* the two search_db reads; the other eight are carried like graduation.   *)
(***************************************************************************)
Str(t) == [t |-> "str", v |-> t, l |-> <<>>]
List(l) == [t |-> "list", v |-> <<>>, l |-> l]
Null == [t |-> "null", v |-> <<>>, l |-> <<>>]

RECURSIVE join(_)
\* ', '.join(map(str, value))
join(l) ==
    IF l = <<>> THEN <<>>
    ELSE IF Len(l) = 1 THEN l[1]
    ELSE l[1] \o <<",", " ">> \o join(Tail(l))

\* normalize_data, lines 35-41
normalize_data(value) ==
    IF value.t = "list" THEN join(value.l)
    ELSE IF value.t = "null" THEN <<>>
    ELSE value.v

Columns == {"emails", "mobile", "graduation", "total_years_of_experience"}

\* process_and_normalize_df and the renaming of line 94, for one row
process_and_normalize_df(row) == [c \in Columns |-> normalize_data(row[c])]

\* variant: only emails is UNIQUE
unique_violation_emails_only(row) ==
    \E i \in 1..Len(resumes) : resumes[i].emails = row.emails

\* init_db, lines 51-52: emails TEXT UNIQUE, mobile TEXT UNIQUE; the INSERT
\* of line 119 raises sqlite3.IntegrityError
unique_violation(row) ==
    \E i \in 1..Len(resumes) :
        \/ resumes[i].emails = row.emails
        \/ resumes[i].mobile = row.mobile

\* the row the INSERT of lines 100-119 adds: id, the columns, created_at
new_row(row) ==
    [id |-> Len(resumes) + 1,
     emails |-> row.emails,
     mobile |-> row.mobile,
     graduation |-> row.graduation,
     total_years_of_experience |-> row.total_years_of_experience,
     created_at |-> current_time]

\* column LIKE '%t%' for a text t without wildcards
Contains(text, t) ==
    \E i \in 0..(Len(text) - Len(t)) : SubSeq(text, i + 1, i + Len(t)) = t

NoFilters == [created_at |-> 0, graduation |-> <<>>, experience |-> <<>>,
              mobile |-> <<>>]

\* variant: the date condition is added whether or not a date is given
where_clause_date_unguarded(r, f) ==
    /\ r.created_at = f.created_at
    /\ f.graduation # <<>> => Contains(r.graduation, f.graduation)
    /\ f.experience # <<>> =>
          Contains(r.total_years_of_experience, f.experience)
    /\ f.mobile # <<>> => Contains(r.mobile, f.mobile)

\* search_db, lines 132-149: the WHERE clause built from the filters; a
\* filter that is missing, None or empty adds no condition
where_clause(r, f) ==
    /\ f.created_at # 0 => r.created_at = f.created_at
    /\ f.graduation # <<>> => Contains(r.graduation, f.graduation)
    /\ f.experience # <<>> =>
          Contains(r.total_years_of_experience, f.experience)
    /\ f.mobile # <<>> => Contains(r.mobile, f.mobile)

RECURSIVE select_rows(_, _)
\* search_db, line 151: the rows of the table the query returns
select_rows(rows, f) ==
    IF rows = <<>> THEN <<>>
    ELSE IF where_clause(Head(rows), f)
         THEN <<Head(rows)>> \o select_rows(Tail(rows), f)
         ELSE select_rows(Tail(rows), f)

\* the cells and the filters the model draws from
EmailCells == {Null, Str(<<>>), Str(<<"a">>)}
MobileCells == {Str(<<"1">>), Str(<<"1", "2">>)}
GraduationCells == {Str(<<"b">>), List(<< <<"b">>, <<"m">> >>)}
ExperienceCells == {Str(<<"2">>)}
InputRows ==
    [emails : EmailCells, mobile : MobileCells, graduation : GraduationCells,
     total_years_of_experience : ExperienceCells]
FilterSets ==
    [created_at : 0..MaxDay, graduation : {<<>>, <<"m">>},
     experience : {<<>>, <<"2">>}, mobile : {<<>>, <<"2">>}]

\* what df_done keeps of a row
logged(given, ok) ==
    IF ok THEN [given |-> given, ok |-> TRUE]
    ELSE [given |-> [given EXCEPT !.graduation = Null,
                                  !.total_years_of_experience = Null],
          ok |-> FALSE]

\* insert_to_db, lines 90-98; datetime.now() does not go back
InsertBegin ==
    /\ store_pc \in {"idle", "inserted", "searched"}
    /\ \E n \in 0..MaxBatch : total_records' = n
    /\ inserted_records' = 0
    /\ \E t \in current_time..MaxDay : current_time' = t
    /\ df_done' = <<>>
    /\ filters' = NoFilters
    /\ found' = <<>>
    /\ store_pc' = "inserting"
    /\ UNCHANGED <<resumes, client_vars, parse_vars, norm_vars,
                   extract_vars>>

\* insert_to_db, lines 109-122: one row of df
InsertRow ==
    /\ store_pc = "inserting"
    /\ Len(df_done) < total_records
    /\ \E given \in InputRows :
        LET row == process_and_normalize_df(given) IN
        IF unique_violation(row)
        THEN /\ df_done' = Append(df_done, logged(given, FALSE))
             /\ UNCHANGED <<resumes, inserted_records>>
        ELSE /\ resumes' = Append(resumes, new_row(row))
             /\ inserted_records' = inserted_records + 1
             /\ df_done' = Append(df_done, logged(given, TRUE))
    /\ UNCHANGED <<store_pc, total_records, current_time, filters,
                   found, client_vars, parse_vars, norm_vars,
                   extract_vars>>

\* insert_to_db, lines 124-126: commit and return
InsertEnd ==
    /\ store_pc = "inserting"
    /\ Len(df_done) = total_records
    /\ store_pc' = "inserted"
    /\ UNCHANGED <<resumes, total_records, inserted_records,
                   current_time, df_done, filters, found, client_vars,
                   parse_vars, norm_vars, extract_vars>>

\* search_db, lines 128-153 (the locals of the last insert_to_db are gone)
SearchDb ==
    /\ store_pc \in {"idle", "inserted", "searched"}
    /\ \E f \in FilterSets :
        /\ filters' = f
        /\ found' = select_rows(resumes, f)
    /\ store_pc' = "searched"
    /\ total_records' = 0
    /\ inserted_records' = 0
    /\ df_done' = <<>>
    /\ UNCHANGED <<resumes, current_time, client_vars, parse_vars, norm_vars,
                   extract_vars>>

(***************************************************************************)
(* sscript: one list of parsed records through normalize_json_data and the *)
(* reconciliation of process_resumes.  A record is a function from the     *)
(* names of its fields to JSON values: a text, a list of values, null, an  *)
(* integer or the float NaN (json.load reads the literal NaN).             *)
(***************************************************************************)
Number(n) == [t |-> "num", v |-> <<n>>, l |-> <<>>]
NaN == [t |-> "nan", v |-> <<>>, l |-> <<>>]

NoneText == <<"N", "o", "n", "e">>
NanText == <<"n", "a", "n">>
Digit == <<"0", "1", "2", "3", "4", "5", "6", "7", "8", "9">>

RECURSIVE str_int(_)
\* str(n) of a natural number n
str_int(n) ==
    IF n < 10 THEN <<Digit[n + 1]>>
    ELSE str_int(n \div 10) \o <<Digit[(n % 10) + 1]>>

\* str(value) of a value that is no list
py_str(value) ==
    IF value.t = "str" THEN value.v
    ELSE IF value.t = "null" THEN NoneText
    ELSE IF value.t = "nan" THEN NanText
    ELSE str_int(value.v[1])

\* normalize_json_data, lines 17-24: one value of a record
normalize_value(value) ==
    IF value.t = "list"
    THEN join([i \in 1..Len(value.l) |-> py_str(value.l[i])])
    ELSE IF value.t = "null" THEN <<>>
    ELSE py_str(value)

\* normalize_json_data, lines 8-27, of a list
normalize_json_data(recs) ==
    [i \in 1..Len(recs) |->
        [k \in DOMAIN recs[i] |-> normalize_value(recs[i][k])]]

\* lines 36-49
required_columns ==
    <<"Name", "Emails", "Mobile", "Present Salary", "Expected Salary",
      "Date of Birth", "Permanent Address", "Company with Duration",
      "Job Title with Duration", "Institution", "Graduation",
      "Total Years of experience">>

\* a cell of a DataFrame: a text or the missing value NaN
Cell(text) == [na |-> FALSE, s |-> text]
NaCell == [na |-> TRUE, s |-> <<>>]

\* pd.DataFrame(columns=required_columns), lines 121 and 123
EmptyFrame == [columns |-> required_columns, rows |-> <<>>]

\* pd.DataFrame(normalized_data) and pd.concat, lines 93 and 103: the
\* columns are the keys of all the records (kept here by name: line 111
\* selects by name), a key a record lacks gives NaN in its row
DataFrame(recs) ==
    LET keys == UNION {DOMAIN recs[i] : i \in 1..Len(recs)}
    IN  [columns |-> keys,
         rows |-> [i \in 1..Len(recs) |->
                     [k \in keys |-> IF k \in DOMAIN recs[i]
                                     THEN Cell(recs[i][k]) ELSE NaCell]]]

\* variant: the two replacements of line 115 are left out
final_cell_astype_only(cell) == IF cell.na THEN NanText ELSE cell.s

\* line 115: astype(str).replace('nan', '').replace('None', '')
final_cell(cell) ==
    LET text == IF cell.na THEN NanText ELSE cell.s
    IN  IF text = NanText \/ text = NoneText THEN <<>> ELSE text

\* lines 105-115: the required columns, in their order, of a frame; a row
\* is the list of its cells in the order of the columns
reconcile(df) ==
    [columns |-> required_columns,
     rows |-> [i \in 1..Len(df.rows) |->
                 [j \in 1..Len(required_columns) |->
                     IF required_columns[j] \in df.columns
                     THEN final_cell(df.rows[i][required_columns[j]])
                     ELSE final_cell(Cell(<<>>))]]]

\* the fields the records of the model carry: two of the schema and one
\* that is not of the schema
Absent == [t |-> "absent", v |-> <<>>, l |-> <<>>]
NameValues ==
    {Str(<<"a">>), Str(NoneText), Null, NaN, Number(7),
     List(<<Str(<<"a">>), Str(<<"b">>)>>), List(<<Null>>)}
EmailsValues == {Str(<<"b">>)}
ExtraValues == {Str(<<"c">>)}
record(n, e, x) ==
    LET given == [f \in {"Name", "Emails", "LinkedIn"} |->
                     IF f = "Name" THEN n ELSE IF f = "Emails" THEN e ELSE x]
    IN  [f \in {g \in DOMAIN given : given[g] # Absent} |-> given[f]]
Records ==
    {record(n, e, x) : n \in NameValues \cup {Absent},
                       e \in EmailsValues \cup {Absent},
                       x \in ExtraValues \cup {Absent}}

\* normalize_json_data, lines 8-27 (called at lines 83 and 91)
NormalizeJsonData ==
    /\ norm_pc = "start"
    /\ normalized_data' = normalize_json_data(data)
    /\ norm_pc' = "normalized"
    /\ UNCHANGED <<data, final_df, client_vars, parse_vars, store_vars,
                   extract_vars>>

\* lines 92-94 and 101-103; with no record all_data stays empty and
\* line 123 returns
BuildFrame ==
    /\ norm_pc = "normalized"
    /\ IF normalized_data = <<>>
       THEN /\ final_df' = EmptyFrame
            /\ norm_pc' = "done"
       ELSE /\ final_df' = DataFrame(normalized_data)
            /\ norm_pc' = "framed"
    /\ UNCHANGED <<data, normalized_data, client_vars, parse_vars,
                   store_vars, extract_vars>>

\* lines 105-117
Reconcile ==
    /\ norm_pc = "framed"
    /\ final_df' = reconcile(final_df)
    /\ norm_pc' = "done"
    /\ UNCHANGED <<data, normalized_data, client_vars, parse_vars,
                   store_vars, extract_vars>>

NormIdle ==
    /\ data = <<>>
    /\ norm_pc = "idle"
    /\ normalized_data = <<>>
    /\ final_df = EmptyFrame

(***************************************************************************)
(* f_script_api_v2: one document through extract_from_pdf.  A line is the  *)
(* sequence of its characters; the text of the pages is read line by line  *)
(* (a page without text and the end of a page change nothing).             *)
(***************************************************************************)
Upper ==
    {"A", "B", "C", "D", "E", "F", "G", "H", "I", "J", "K", "L", "M",
     "N", "O", "P", "Q", "R", "S", "T", "U", "V", "W", "X", "Y", "Z"}
Lower ==
    {"a", "b", "c", "d", "e", "f", "g", "h", "i", "j", "k", "l", "m",
     "n", "o", "p", "q", "r", "s", "t", "u", "v", "w", "x", "y", "z"}
\* \s
Space == {" ", "\t", "\n"}

RECURSIVE lstrip(_)
lstrip(s) == IF s # <<>> /\ s[1] \in Space THEN lstrip(Tail(s)) ELSE s
RECURSIVE rstrip(_)
rstrip(s) ==
    IF s # <<>> /\ s[Len(s)] \in Space THEN rstrip(SubSeq(s, 1, Len(s) - 1))
    ELSE s
\* str.strip()
strip_text(s) == rstrip(lstrip(s))

\* line 206: the alternatives of the second pattern
Keywords ==
    {<<"E", "D", "U", "C", "A", "T", "I", "O", "N">>,
     <<"E", "X", "P", "E", "R", "I", "E", "N", "C", "E">>,
     <<"S", "K", "I", "L", "L", "S">>,
     <<"P", "R", "O", "J", "E", "C", "T", "S">>,
     <<"S", "U", "M", "M", "A", "R", "Y">>,
     <<"W", "O", "R", "K">>,
     <<"C", "O", "N", "T", "A", "C", "T">>,
     <<"A", "C", "H", "I", "E", "V", "E", "M", "E", "N", "T", "S">>,
     <<"C", "E", "R", "T", "I", "F", "I", "C", "A", "T", "I", "O", "N", "S">>,
     <<"L", "A", "N", "G", "U", "A", "G", "E", "S">>}

\* line 205: ^[A-Z\s&-]+$
all_caps(line) ==
    /\ line # <<>>
    /\ \A i \in 1..Len(line) : line[i] \in Upper \cup Space \cup {"&", "-"}
\* line 206: ^(EDUCATION|...|LANGUAGES)
starts_with_keyword(line) ==
    \E kw \in Keywords :
        Len(line) >= Len(kw) /\ SubSeq(line, 1, Len(kw)) = kw
\* line 207: ^[A-Z][a-zA-Z\s]+:
phrase_colon(line) ==
    \E n \in 3..Len(line) :
        /\ line[1] \in Upper
        /\ line[n] = ":"
        /\ \A i \in 2..(n - 1) : line[i] \in Upper \cup Lower \cup Space
\* line 208: ^[A-Z][a-zA-Z\s]{2,30}$
short_phrase(line) ==
    /\ Len(line) >= 3
    /\ Len(line) <= 31
    /\ line[1] \in Upper
    /\ \A i \in 2..Len(line) : line[i] \in Upper \cup Lower \cup Space

\* _is_likely_header, lines 202-210
is_likely_header(line) ==
    LET l == strip_text(line)
    IN  all_caps(l) \/ starts_with_keyword(l) \/ phrase_colon(l)
           \/ short_phrase(l)

NewSection == [heading |-> <<>>, content |-> <<>>]

\* variant: a section is kept only if it has content
section_has_content(sec) == sec.content # <<>>

\* lines 178 and 188: current_section["heading"] or current_section["content"]
section_nonempty(sec) == sec.heading # <<>> \/ sec.content # <<>>

\* lines of page text the model reads: headers by each of the four
\* patterns, lines that are no header, blank and padded lines
SampleLines ==
    {<<"W", "O", "R", "K">>,
     <<"W", "O", "R", "K", " ", "1">>,
     <<"S", "k", ":", "c">>,
     <<"J", "o", "b">>,
     <<"J", "o">>,
     <<" ", "a", "1", " ">>,
     <<" ", "\t">>,
     <<>>}

\* lines 174-186: one line of a page
ExtractLine ==
    /\ extract_pc = "reading"
    /\ lines_read < MaxLines
    /\ \E line \in SampleLines :
          LET clean_line == strip_text(line)
          IN  IF clean_line # <<>>
              THEN /\ IF is_likely_header(clean_line)
                      THEN /\ sections' =
                                 IF section_nonempty(current_section)
                                 THEN Append(sections, current_section)
                                 ELSE sections
                           /\ current_section' =
                                 [heading |-> clean_line, content |-> <<>>]
                      ELSE /\ current_section' =
                                 [current_section EXCEPT
                                     !.content = Append(@, clean_line)]
                           /\ UNCHANGED sections
                   /\ full_text' = full_text \o clean_line \o <<"\n">>
              ELSE UNCHANGED <<full_text, sections, current_section>>
    /\ lines_read' = lines_read + 1
    /\ UNCHANGED <<extract_pc, resume_data, client_vars, parse_vars,
                   store_vars, norm_vars>>

NoResume == [raw_text |-> <<>>, sections |-> <<>>, error |-> FALSE]

\* lines 188-197, after the last page (contact_info is computed from
\* full_text alone and is left out of the returned value here)
ExtractReturn ==
    /\ extract_pc = "reading"
    /\ resume_data' =
          [raw_text |-> strip_text(full_text),
           sections |-> IF section_nonempty(current_section)
                        THEN Append(sections, current_section)
                        ELSE sections,
           error |-> FALSE]
    /\ extract_pc' = "done"
    /\ UNCHANGED <<lines_read, full_text, sections, current_section,
                   client_vars, parse_vars, store_vars, norm_vars>>

\* lines 199-200: pdfplumber raised on the file or on a page
ExtractRaise ==
    /\ extract_pc = "reading"
    /\ resume_data' = [NoResume EXCEPT !.error = TRUE]
    /\ extract_pc' = "failed"
    /\ UNCHANGED <<lines_read, full_text, sections, current_section,
                   client_vars, parse_vars, store_vars, norm_vars>>

ExtractIdle ==
    /\ extract_pc = "idle"
    /\ lines_read = 0
    /\ full_text = <<>>
    /\ sections = <<>>
    /\ current_section = NewSection
    /\ resume_data = NoResume

StoreIdle ==
    /\ resumes = <<>>
    /\ store_pc = "idle"
    /\ total_records = 0
    /\ inserted_records = 0
    /\ current_time = 1
    /\ df_done = <<>>
    /\ filters = NoFilters
    /\ found = <<>>

ParseIdle ==
    /\ body = <<>>
    /\ parse_pc = "idle"
    /\ saved = NoData
    /\ parsed = NoRows

ClientIdle ==
    /\ api_keys = <<>>
    /\ used_keys = {}
    /\ invalid_keys = {}
    /\ current_client = 0
    /\ pc = "idle"
    /\ caller = "ctor"
    /\ selected_key = 0
    /\ retries = 0
    /\ probes = 0
    /\ probe_outcome = "none"
    /\ rejected = {}
    /\ reset_done = FALSE
    /\ sel_result = "none"
    /\ attempts = 0
    /\ tried = {}
    /\ last_error = "none"
    /\ cause = "none"
    /\ call_result = "none"
    /\ response = <<>>
    /\ archive = <<>>
    /\ file_idx = 1
    /\ llm_data = NoData
    /\ output_files = <<>>
    /\ doc_log = <<>>
    /\ result_df = <<>>

\* main: the uploaded archive; the client is not built yet
Init ==
    /\ api_keys = <<>>
    /\ used_keys = {}
    /\ invalid_keys = {}
    /\ current_client = 0
    /\ pc = "new"
    /\ caller = "ctor"
    /\ selected_key = 0
    /\ retries = 0
    /\ probes = 0
    /\ probe_outcome = "none"
    /\ rejected = {}
    /\ reset_done = FALSE
    /\ sel_result = "none"
    /\ attempts = 0
    /\ tried = {}
    /\ last_error = "none"
    /\ cause = "none"
    /\ call_result = "none"
    /\ response = <<>>
    /\ archive \in SeqsUpTo(BOOLEAN, MaxFiles)
    /\ file_idx = 1
    /\ llm_data = NoData
    /\ output_files = [i \in 1..Len(archive) |-> NoData]
    /\ doc_log = [i \in 1..Len(archive) |-> NewLog]
    /\ result_df = <<>>
    /\ ParseIdle
    /\ StoreIdle
    /\ NormIdle
    /\ ExtractIdle

Next ==
    \/ Construct
    \/ SelectKey
    \/ ProbeKey
    \/ InitializeReturn
    \/ LoopNext
    \/ ExtractFromPdf
    \/ ProcessWithLlm
    \/ Attempt
    \/ CallEnd
    \/ SaveOutput
    \/ ProcessResumes

Spec == Init /\ [][Next]_vars

\* a response body of the completion service
ParseInit ==
    /\ ClientIdle
    /\ body \in SeqsUpTo(Tokens, MaxBody)
    /\ parse_pc = "start"
    /\ saved = NoData
    /\ parsed = NoRows
    /\ StoreIdle
    /\ NormIdle
    /\ ExtractIdle

ParseNext ==
    \/ ParseResponse
    \/ ReadSavedFile

ParseSpec == ParseInit /\ [][ParseNext]_vars

\* init_db on a new resumes.db
StoreInit ==
    /\ ClientIdle
    /\ ParseIdle
    /\ StoreIdle
    /\ NormIdle
    /\ ExtractIdle

StoreNext ==
    \/ InsertBegin
    \/ InsertRow
    \/ InsertEnd
    \/ SearchDb

StoreSpec == StoreInit /\ [][StoreNext]_vars

\* a list of parsed records of one file
NormInit ==
    /\ ClientIdle
    /\ ParseIdle
    /\ StoreIdle
    /\ data \in SeqsUpTo(Records, MaxRecords)
    /\ norm_pc = "start"
    /\ normalized_data = <<>>
    /\ final_df = EmptyFrame
    /\ ExtractIdle

NormNext ==
    \/ NormalizeJsonData
    \/ BuildFrame
    \/ Reconcile

NormSpec == NormInit /\ [][NormNext]_vars

\* lines 165-167: the locals of extract_from_pdf before the first page
ExtractInit ==
    /\ ClientIdle
    /\ ParseIdle
    /\ StoreIdle
    /\ NormIdle
    /\ extract_pc = "reading"
    /\ lines_read = 0
    /\ full_text = <<>>
    /\ sections = <<>>
    /\ current_section = NewSection
    /\ resume_data = NoResume

ExtractNext ==
    \/ ExtractLine
    \/ ExtractReturn
    \/ ExtractRaise

ExtractSpec == ExtractInit /\ [][ExtractNext]_vars

(***************************************************************************)
(* Properties of the client and of the batch loop (checked under Spec).    *)
(***************************************************************************)
AuthRejected(e) == e = "invalid_api_key" \/ e = "401"
PoolFailure(r) == r = "exhausted" \/ r = "all_invalid"
Entries == 1..Len(archive)

\* C1: at the moment _initialize_client returns a key and has installed it
\* as the active credential, that key is a key of the pool and is not in
\* invalid_keys.
C1_ReturnedKeyNotInvalid ==
    pc = "sel_return" =>
        /\ sel_result = "returned"
        /\ current_client = selected_key
        /\ selected_key \in Range(api_keys)
        /\ selected_key \notin invalid_keys

\* C1 witness: a selection made for a retry returns after used_keys was
\* reset while some key of the pool is invalid.
C1_Witness ==
    /\ pc = "sel_return"
    /\ caller = "call"
    /\ reset_done
    /\ invalid_keys # {}

\* C2: when every credential of the pool has been rejected for
\* authentication, a selection that has ended has failed with "All API keys
\* are invalid", after at most len(api_keys) probes.
C2_AllRejectedRaisesAllInvalid ==
    (sel_result # "none" /\ Range(api_keys) \subseteq invalid_keys) =>
        /\ sel_result = "all_invalid"
        /\ probes <= Len(api_keys)

\* C3: when a call of create_chat_completion has ended, it made at most
\* len(api_keys) attempts and ended with a response (the last attempt, every
\* earlier one having failed), with "All API keys failed or are invalid"
\* after len(api_keys) failed attempts, wrapping the last error, or with
\* "All API keys are invalid" raised by the rotation.
C3_CallOutcome ==
    pc = "call_end" =>
        /\ attempts <= Len(api_keys)
        /\ call_result \in {"response", "exhausted", "all_invalid"}
        /\ call_result = "response" => retries = attempts - 1
        /\ call_result = "exhausted" =>
              /\ attempts = Len(api_keys)
              /\ retries = attempts
              /\ cause = last_error
              /\ cause # "none"
        /\ call_result = "all_invalid" =>
              /\ retries = attempts
              /\ sel_result = "all_invalid"

\* C4: in every step, invalid_keys loses no member and gains only the key
\* whose probe or request was just rejected for authentication; used_keys
\* gains only the key that the selection returns in that step; used_keys
\* loses members only in the step of a selection that finds no key that is
\* neither used nor invalid.  A key whose probe is rejected becomes invalid
\* and a key that is returned becomes used.
C4_Step ==
    /\ invalid_keys \subseteq invalid_keys'
    /\ \A k \in invalid_keys' \ invalid_keys :
          \/ pc = "probe" /\ k = selected_key /\ AuthRejected(probe_outcome')
          \/ pc = "attempt" /\ k = current_client /\ AuthRejected(last_error')
    /\ \A k \in used_keys' \ used_keys :
          /\ pc = "probe"
          /\ k = selected_key
          /\ pc' = "sel_return"
    /\ (used_keys \ used_keys' # {}) =>
          /\ pc = "select"
          /\ {k \in Range(api_keys) :
                k \notin used_keys /\ k \notin invalid_keys} = {}
    /\ (pc = "probe" /\ AuthRejected(probe_outcome')) =>
          selected_key \in invalid_keys'
    /\ (pc = "attempt" /\ attempts' = attempts + 1 /\ retries' = retries + 1
          /\ AuthRejected(last_error')) => current_client \in invalid_keys'
    /\ pc' = "sel_return" => selected_key' \in used_keys'
C4_UsageStateTransitions == [][C4_Step]_vars

\* C4 witness: used_keys has been reset in a selection while a key that was
\* marked invalid before is still invalid.
C4_Witness ==
    /\ pc = "probe"
    /\ reset_done
    /\ invalid_keys # {}
    /\ used_keys = {}

\* C5: a probe rejected for authentication puts the candidate into
\* invalid_keys and the selection goes on without returning; a probe that
\* succeeds or fails otherwise leaves the candidate out of invalid_keys and
\* makes it the returned, active and used key.  A returned key is none of
\* the keys rejected in that selection.
C5_Step ==
    pc = "probe" =>
        IF AuthRejected(probe_outcome')
        THEN /\ selected_key \in invalid_keys'
             /\ selected_key \in rejected'
             /\ pc' = "select"
             /\ sel_result' = "none"
             /\ current_client' = current_client
        ELSE /\ selected_key \notin invalid_keys'
             /\ pc' = "sel_return"
             /\ sel_result' = "returned"
             /\ selected_key' = selected_key
             /\ current_client' = selected_key
             /\ selected_key \in used_keys'
             /\ selected_key \notin rejected'
C5_ProbeDecides == [][C5_Step]_vars

\* C5 witness: a selection has returned a key whose probe failed for a
\* reason other than authentication, after another candidate was rejected.
C5_Witness ==
    /\ pc = "sel_return"
    /\ probe_outcome = "rate_limit"
    /\ rejected # {}
    /\ selected_key \notin invalid_keys

\* C6: a document whose completion call failed because of the pool has no
\* output file, and no later document is sent to the completion service.
C6_PoolFailureAbortsBatch ==
    \A i \in Entries :
        PoolFailure(doc_log[i].call) =>
            /\ output_files[i] = NoData
            /\ \A j \in Entries :
                  j > i => /\ doc_log[j].call = "none"
                           /\ ~(file_idx = j /\ attempts > 0)

\* C7: a document whose extraction failed has no output file and was not
\* sent to the service; and once the program has stopped after the client
\* was built, every PDF after such a document has been extracted, and has
\* an output file unless its own extraction or its own call raised.
Stopped ==
    pc \notin {"new", "select", "probe", "sel_return", "loop", "extract",
               "llm", "attempt", "call_end", "write"}
Treated(j) ==
    /\ doc_log[j].extract \in {"ok", "error"}
    /\ doc_log[j].extract = "ok" =>
          /\ doc_log[j].call # "none"
          /\ (doc_log[j].call = "response" \/ PoolFailure(doc_log[j].call))
                => output_files[j] # NoData
C7_ExtractionErrorSkipsDocument ==
    \A i \in Entries :
        doc_log[i].extract = "error" =>
            /\ output_files[i] = NoData
            /\ doc_log[i].call = "none"
            /\ Stopped => \A j \in Entries : (j > i /\ archive[j]) => Treated(j)

\* C7 witness: the batch is over, the extraction of one document failed and
\* a later document has its output file.
C7_Witness ==
    /\ pc = "done"
    /\ \E i, j \in Entries :
          /\ i < j
          /\ doc_log[i].extract = "error"
          /\ doc_log[j].call = "response"
          /\ output_files[j].kind = "json"

(***************************************************************************)
(* Properties of the parsing (checked under ParseSpec).                    *)
(***************************************************************************)
\* the parse result the three candidates give when tried in order of
\* preference, each one tried when the ones before it did not parse
InOrderOfPreference(b) ==
    IF json_loads_ok(b) THEN [src |-> "whole", text |-> b]
    ELSE IF fence_found(b) /\ json_loads_ok(fence_group(b))
         THEN [src |-> "fence", text |-> fence_group(b)]
    ELSE IF bracket_found(b) /\ json_loads_ok(bracket_group(b))
         THEN [src |-> "bracket", text |-> bracket_group(b)]
    ELSE [src |-> "fallback", text |-> b]

Candidate(b) == InOrderOfPreference(b)

\* C10: for every body whose candidates hold records only, the rows taken
\* from it are the records of the first of whole body, fence interior,
\* bracket substring that parses as JSON; when none parses no row is taken
\* and the file holds the fallback {raw_llm_output: body}.
C10_FirstParsingCandidate ==
    (parse_pc = "tabled"
        /\ (Candidate(body).src # "fallback"
                => normalize_ok(as_list(Candidate(body).text))))
        => IF Candidate(body).src = "fallback"
           THEN /\ parsed.rows = 0
                /\ saved = [kind |-> "raw_llm_output", text |-> body]
           ELSE /\ parsed.rows = Len(as_list(Candidate(body).text))
                /\ parsed.rows > 0 =>
                      /\ parsed.src = Candidate(body).src
                      /\ parsed.text = Candidate(body).text

(***************************************************************************)
(* Properties of the store (checked under StoreSpec).                      *)
(***************************************************************************)
Text(cell) ==
    IF cell.t = "list" THEN join(cell.l)
    ELSE IF cell.t = "null" THEN <<>>
    ELSE cell.v
SharesKey(r, emails, mobile) == r.emails = emails \/ r.mobile = mobile
NoSharedKeys(rows) ==
    \A i, j \in 1..Len(rows) :
        i # j => /\ rows[i].emails # rows[j].emails
                 /\ rows[i].mobile # rows[j].mobile
\* the table as it was when the current insert_to_db call began
Before(rows, inserted) == SubSeq(rows, 1, Len(rows) - inserted)
OkCount(log) == Cardinality({i \in 1..Len(log) : log[i].ok})

\* C8: in every step the rows already stored stay as they are; a row of df
\* whose email or mobile equals that of a stored row is skipped, any other
\* row is appended with its values; no two stored rows share an email or a
\* mobile; the call returns (rows stored by it, rows given); two rows with
\* the same email, the first of which collides with nothing stored before
\* the call, give (1, 2).
C8_Step ==
    LET n == Len(resumes)
        rowstep == store_pc = "inserting" /\ Len(df_done') = Len(df_done) + 1
        e == df_done'[Len(df_done')]
        dup == \E i \in 1..n :
                  SharesKey(resumes[i], Text(e.given.emails),
                            Text(e.given.mobile))
    IN
    /\ Len(resumes') >= n
    /\ SubSeq(resumes', 1, n) = resumes
    /\ NoSharedKeys(resumes')
    /\ ~rowstep => resumes' = resumes
    /\ rowstep =>
          IF dup
          THEN /\ resumes' = resumes
               /\ ~e.ok
               /\ inserted_records' = inserted_records
          ELSE /\ Len(resumes') = n + 1
               /\ resumes'[n + 1].emails = Text(e.given.emails)
               /\ resumes'[n + 1].mobile = Text(e.given.mobile)
               /\ resumes'[n + 1].graduation = Text(e.given.graduation)
               /\ resumes'[n + 1].total_years_of_experience =
                     Text(e.given.total_years_of_experience)
               /\ e.ok
               /\ inserted_records' = inserted_records + 1
    /\ store_pc' = "inserted" =>
          /\ total_records' = Len(df_done')
          /\ inserted_records' = OkCount(df_done')
          /\ (/\ total_records' = 2
              /\ Text(df_done'[1].given.emails) = Text(df_done'[2].given.emails)
              /\ \A i \in 1..(Len(resumes') - inserted_records') :
                    ~SharesKey(resumes'[i], Text(df_done'[1].given.emails),
                               Text(df_done'[1].given.mobile)))
             => <<inserted_records', total_records'>> = <<1, 2>>
C8_InsertSkipsDuplicates == [][C8_Step]_vars

\* C8 witness: a call given two rows with the same email and different
\* mobiles has returned (1, 2).
C8_Witness ==
    /\ store_pc = "inserted"
    /\ <<inserted_records, total_records>> = <<1, 2>>
    /\ Text(df_done[1].given.emails) = Text(df_done[2].given.emails)
    /\ Text(df_done[1].given.mobile) # Text(df_done[2].given.mobile)

\* the rows of the last insert_to_db call are normalized records (texts)
\* with pairwise distinct emails and mobiles that collide with nothing that
\* was stored before the call
DistinctNormalizedBatch ==
    /\ \A i \in 1..Len(df_done) :
          /\ df_done[i].given.emails.t = "str"
          /\ df_done[i].given.mobile.t = "str"
          /\ df_done[i].ok =>
                /\ df_done[i].given.graduation.t = "str"
                /\ df_done[i].given.total_years_of_experience.t = "str"
    /\ \A i, j \in 1..Len(df_done) :
          i # j => /\ df_done[i].given.emails # df_done[j].given.emails
                   /\ df_done[i].given.mobile # df_done[j].given.mobile
    /\ \A i \in 1..Len(df_done) :
          \A k \in 1..Len(Before(resumes, inserted_records)) :
              ~SharesKey(resumes[k], df_done[i].given.emails.v,
                         df_done[i].given.mobile.v)

\* C9: a search with no filter returns the whole table; and after an
\* insert_to_db call given N such records, the search with no filter
\* returns the rows stored before followed by all N, each with the values
\* given.
C9_RoundTrip ==
    /\ (store_pc = "searched" /\ filters = NoFilters) => found = resumes
    /\ (store_pc = "inserted" /\ DistinctNormalizedBatch) =>
          LET all == select_rows(resumes, NoFilters)
              base == Len(resumes) - inserted_records
          IN /\ inserted_records = total_records
             /\ Len(all) = base + total_records
             /\ \A i \in 1..total_records :
                   /\ all[base + i].emails = df_done[i].given.emails.v
                   /\ all[base + i].mobile = df_done[i].given.mobile.v
                   /\ all[base + i].graduation = df_done[i].given.graduation.v
                   /\ all[base + i].total_years_of_experience =
                         df_done[i].given.total_years_of_experience.v
                   /\ all[base + i].created_at = current_time

\* C9 witness: a call given two such records has returned and the search
\* with no filter gives both.
C9_Witness ==
    /\ store_pc = "inserted"
    /\ total_records = 2
    /\ DistinctNormalizedBatch
    /\ Len(select_rows(resumes, NoFilters)) = 2

(***************************************************************************)
(* Properties of the normalization (checked under NormSpec).               *)
(***************************************************************************)
\* the string a field of a record is to give: its elements joined with
\* ", " for a list, the empty string for null or a missing field, its
\* string form otherwise
FieldString(rec, col) ==
    IF col \notin DOMAIN rec THEN <<>>
    ELSE IF rec[col].t = "null" THEN <<>>
    ELSE IF rec[col].t = "list"
         THEN join([i \in 1..Len(rec[col].l) |-> py_str(rec[col].l[i])])
    ELSE py_str(rec[col])

\* the strings 'nan' and 'None' are blanked
Blanked(text) == IF text \in {NanText, NoneText} THEN <<>> ELSE text

\* one row per record, in the order of the records, each of twelve cells
\* under the twelve columns in their order
TableShape ==
    /\ final_df.columns = required_columns
    /\ Len(required_columns) = 12
    /\ Len(final_df.rows) = Len(data)
    /\ \A i \in 1..Len(data) : Len(final_df.rows[i]) = 12

\* C11, as stated: the normalized table of a list of records has one row per
\* record with exactly the 12 schema fields in the fixed order; a list value
\* is its elements joined with ", ", a null or missing field is the empty
\* string, any other value is its string form; other fields are dropped.
C11_NormalizedTable ==
    norm_pc = "done" =>
        /\ TableShape
        /\ \A i \in 1..Len(data) : \A j \in 1..12 :
              final_df.rows[i][j] = FieldString(data[i], required_columns[j])

\* C11, amended: as above, except that a field whose string would be exactly
\* 'nan' or 'None' gives the empty string.
C11_NormalizedTableBlanked ==
    norm_pc = "done" =>
        /\ TableShape
        /\ \A i \in 1..Len(data) : \A j \in 1..12 :
              final_df.rows[i][j] =
                  Blanked(FieldString(data[i], required_columns[j]))

\* two records, the first with a list for Name and a field outside the
\* schema, the second without Name: the joined list is in the first row
C11_Witness ==
    /\ norm_pc = "done"
    /\ Len(data) = 2
    /\ "Name" \in DOMAIN data[1]
    /\ data[1]["Name"].t = "list"
    /\ "LinkedIn" \in DOMAIN data[1]
    /\ "Name" \notin DOMAIN data[2]
    /\ final_df.rows[1][1] = <<"a", ",", " ", "b">>
    /\ final_df.rows[2][1] = <<>>

(***************************************************************************)
(* Properties of the extraction (checked under ExtractSpec).               *)
(***************************************************************************)
RECURSIVE SplitLines(_, _)
\* text.split('\n') of a text that is not empty, cur being the line begun
SplitLines(text, cur) ==
    IF text = <<>> THEN <<cur>>
    ELSE IF text[1] = "\n" THEN <<cur>> \o SplitLines(Tail(text), <<>>)
    ELSE SplitLines(Tail(text), Append(cur, text[1]))

\* the lines of a text; the empty text has none
LinesOf(text) == IF text = <<>> THEN <<>> ELSE SplitLines(text, <<>>)

RECURSIVE Flatten(_)
\* the headings and the contents of the sections, read in order
Flatten(secs) ==
    IF secs = <<>> THEN <<>>
    ELSE (IF secs[1].heading = <<>> THEN <<>> ELSE <<secs[1].heading>>)
            \o secs[1].content \o Flatten(Tail(secs))

\* C12: the sections extract_from_pdf returns follow the sectioning rule: no
\* section is empty, only the first can have an empty heading, every heading
\* is a header line and every content line is not, the headings and contents
\* read in order are exactly the lines of raw_text in order; a header
\* followed by two non-header lines gives one section with that heading and
\* those two lines.
C12_SectionsFollowRule ==
    extract_pc = "done" =>
        LET secs == resume_data.sections
            lines == LinesOf(resume_data.raw_text)
        IN  /\ \A i \in 1..Len(secs) :
                  /\ secs[i].heading # <<>> \/ secs[i].content # <<>>
                  /\ i > 1 => secs[i].heading # <<>>
                  /\ secs[i].heading # <<>> => is_likely_header(secs[i].heading)
                  /\ \A k \in 1..Len(secs[i].content) :
                        ~is_likely_header(secs[i].content[k])
            /\ Flatten(secs) = lines
            /\ \A i \in 1..Len(lines) : lines[i] # <<>>
            /\ (/\ Len(lines) = 3
                /\ is_likely_header(lines[1])
                /\ ~is_likely_header(lines[2])
                /\ ~is_likely_header(lines[3]))
               => secs = << [heading |-> lines[1],
                             content |-> <<lines[2], lines[3]>>] >>

\* the header WORK followed by two lines that are no header
C12_Witness ==
    /\ extract_pc = "done"
    /\ resume_data.sections =
          << [heading |-> <<"W", "O", "R", "K">>,
              content |-> << <<"a", "1">>, <<"J", "o">> >>] >>

(***************************************************************************)
(* Properties of successive calls and of the table (checked under Spec).   *)
(***************************************************************************)
\* C13: every request attempt of create_chat_completion, in the first call
\* or in a later one, is made with an active key that is not in invalid_keys
\* at the moment of the attempt.
C13_AttemptKeyNotInvalid ==
    pc = "attempt" => current_client \notin invalid_keys

\* C14: when a call ends with GroqAPIError("All API keys failed or are
\* invalid"), every key of the pool that is not in invalid_keys has been
\* attempted at least once within that call.
C14_ExhaustedAfterAllTried ==
    (pc = "call_end" /\ call_result = "exhausted") =>
        \A k \in Range(api_keys) : k \notin invalid_keys => k \in tried

\* C15: every row of the table process_resumes builds comes from a document
\* whose completion call returned a response; a document whose call failed
\* with a pool failure contributes no row.
C15_FailedDocumentGivesNoRow ==
    pc = "tabled" =>
        \A k \in 1..Len(result_df) :
            /\ ~PoolFailure(doc_log[result_df[k]].call)
            /\ doc_log[result_df[k]].call = "response"
====
